---- MODULE Spec2Model ----
(***************************************************************************)
(* A model of oe1_ondemand.py: the rule matcher                            *)
(* (Broadcasts.find_broadcasts_of_interest) and the acquisition pipeline   *)
(* (Broadcasts.download_all_interesting) together with the collaborators   *)
(* they call (Broadcast.download, convert_to_m4a, tag_media_file, the      *)
(* url_read cache and its exit hook).                                      *)
(***************************************************************************)
EXTENDS Integers, Sequences, FiniteSets, TLC

(***************************************************************************)
(* Bounds of the model.                                                    *)
(***************************************************************************)
\* longest catalog (self.broadcasts) the matcher is run on
MaxRecords == 2
\* how often find_broadcasts_of_interest is invoked on one Broadcasts object
MaxFindCalls == 2

VARIABLES
    pc,                     \* position of the program
    ARGS,                   \* the parsed command line (dry_run, overwrite, no_cache)
    broadcasts,             \* Broadcasts.broadcasts: the Broadcast objects, by position
    ini_sections,           \* config.sections() in file order
    broadcasts_rules,       \* Config.broadcasts_rules: section -> compiled rule
    broadcasts_of_interest, \* Broadcasts.broadcasts_of_interest: section -> set of objects
    extended_info,          \* full_dict['extended_info'] of each Broadcast object
    cache,                  \* the dict of the url_read cache: url -> stored result
    utcnow,                 \* the clock read by cached()
    fsec,                   \* find loop: index of the current rule in ini_sections
    fb,                     \* find loop: index of the next broadcast (0: rule not entered)
    find_calls,             \* completed and running invocations of the matcher
    enrich_failed,          \* (section, object) pairs whose enrichment fetch failed
    fs,                     \* the file system: path -> content, for the paths that exist
    fs_start,               \* the file system when the current run started
    run,                    \* number of the current program run
    prev,                   \* the previous run: its ARGS, fs_start and log
    pending,                \* (section, object) pairs download_all_interesting has yet to process
    cur,                    \* the pair being processed, or <<>>
    stage,                  \* the stage the current pair is at ("finished": it is through)
    dl_local,               \* the local actually_downloaded of the loop body
    r,                      \* the local r of the loop body
    actually_downloaded,    \* Broadcasts.actually_downloaded
    actually_converted,     \* Broadcasts.actually_converted
    log,                    \* what was done for each pair in this run
    raised,                 \* an uncaught exception ended the run
    enriched,               \* per Broadcast object: calls of get_broadcast_info_extended, last page
    raw_name,               \* the argument of the first call of repl_unsave
    sanitized,              \* what successive calls of repl_unsave returned
    calls,                  \* the calls of url_read so far: url, time, fetched or not, result
    config,                 \* the ini file: section -> the keys it sets
    csec                    \* Config.__init__: index of the section being compiled

matchVars == <<broadcasts, ini_sections, broadcasts_rules, broadcasts_of_interest,
               extended_info, fsec, fb, find_calls, enrich_failed, enriched>>
cacheVars == <<cache, utcnow>>
pipeVars == <<fs, fs_start, run, prev, pending, cur, stage, dl_local, r,
              actually_downloaded, actually_converted, log, raised>>
sanVars == <<raw_name, sanitized>>
confVars == <<config, csec>>
otherVars == <<sanVars, calls, confVars>>
vars == <<pc, ARGS, matchVars, cacheVars, pipeVars, otherVars>>

(***************************************************************************)
(* Broadcast: the fields derived from a catalog entry.                     *)
(***************************************************************************)
IsLeap(y) == (y % 4 = 0) /\ ((y % 100 # 0) \/ (y % 400 = 0))

DaysInMonth(y, m) ==
    CASE m \in {4, 6, 9, 11} -> 30
      [] m = 2 -> IF IsLeap(y) THEN 29 ELSE 28
      [] OTHER -> 31

RECURSIVE DaysBeforeMonth(_, _)
DaysBeforeMonth(y, m) ==
    IF m <= 1 THEN 0 ELSE DaysBeforeMonth(y, m - 1) + DaysInMonth(y, m - 1)

DaysBeforeYear(y) ==
    (y - 1) * 365 + ((y - 1) \div 4) - ((y - 1) \div 100) + ((y - 1) \div 400)

\* datetime.toordinal(): 0001-01-01 is day 1
ToOrdinal(date) == DaysBeforeYear(date.Y) + DaysBeforeMonth(date.Y, date.m) + date.d

\* datetime.weekday(): Monday is 0, Sunday is 6
Weekday(date) == (ToOrdinal(date) + 6) % 7

\* comparison of two datetime.time values (hour, minute)
TimeLE(a, b) == a[1] < b[1] \/ (a[1] = b[1] /\ a[2] <= b[2])

(***************************************************************************)
(* The title filter: re.compile(pattern, re.IGNORECASE).search(title).     *)
(* Titles are sequences of characters; a pattern is a sequence of literal  *)
(* characters or the default '.*'.                                         *)
(***************************************************************************)
DotStar == <<".", "*">>

Lower(c) ==
    CASE c = "J" -> "j"
      [] c = "N" -> "n"
      [] OTHER -> c

\* the literal pattern p matches t at offset i, ignoring case
MatchAt(p, t, i) ==
    /\ i + Len(p) <= Len(t)
    /\ \A j \in 1..Len(p) : Lower(t[i + j]) = Lower(p[j])

RegexSearch(p, t) ==
    IF p = DotStar THEN TRUE ELSE \E i \in 0..Len(t) : MatchAt(p, t, i)

(***************************************************************************)
(* The rule predicate of find_broadcasts_of_interest.                      *)
(***************************************************************************)
\* the predicate without its weekday test
RuleMatchesNoDays(rule, b) ==
    /\ TimeLE(rule.start_time, b.time)
    /\ TimeLE(b.time, rule.end_time)
    /\ RegexSearch(rule.title, b.title)

RuleMatches(rule, b) ==
    /\ TimeLE(rule.start_time, b.time)
    /\ TimeLE(b.time, rule.end_time)
    /\ Weekday(b.day_label) \in rule.days
    /\ RegexSearch(rule.title, b.title)

(***************************************************************************)
(* Inputs: catalog entries and rules.                                      *)
(***************************************************************************)
Journal == <<"J", "o", "u", "r", "n", "a", "l">>
NewsJournal == <<"N", "e", "w", "s", " ", "J", "o", "u", "r", "n", "a", "l">>
News == <<"N", "e", "w", "s">>

Sat20141101 == [Y |-> 2014, m |-> 11, d |-> 1]
Mon20141103 == [Y |-> 2014, m |-> 11, d |-> 3]

Ids == {"id1", "id2"}

\* what the catalog schedules: a Saturday broadcast inside the window, Monday
\* broadcasts on the window's two bounds and one minute past it, and one whose
\* title lacks the word the patterns look for
Programmes == { [day_label |-> Sat20141101, time |-> <<9, 5>>, title |-> Journal],
                [day_label |-> Mon20141103, time |-> <<8, 0>>, title |-> NewsJournal],
                [day_label |-> Mon20141103, time |-> <<10, 0>>, title |-> Journal],
                [day_label |-> Mon20141103, time |-> <<10, 1>>, title |-> Journal],
                [day_label |-> Mon20141103, time |-> <<9, 5>>, title |-> News] }

Entries ==
    { [id |-> i, day_label |-> p.day_label, time |-> p.time, title |-> p.title,
       info |-> "info"] : i \in Ids, p \in Programmes }

RECURSIVE SeqsUpTo(_, _)
SeqsUpTo(S, n) ==
    IF n = 0 THEN {<<>>}
    ELSE LET shorter == SeqsUpTo(S, n - 1)
         IN  shorter \cup { Append(q, x) : q \in {w \in shorter : Len(w) = n - 1}, x \in S }

Catalogs == SeqsUpTo(Entries, MaxRecords)

Rules ==
    { [start_time |-> <<8, 0>>, end_time |-> <<10, 0>>, days |-> d, title |-> p,
       KeepOriginal |-> "False"] :
        d \in {{0, 1, 2, 3, 4}, {5, 6}},
        p \in {<<"j", "o", "u", "r", "n", "a", "l">>, DotStar} }

SectionOrders == {<<"A">>, <<"A", "B">>}

Range(q) == { q[i] : i \in 1..Len(q) }

(***************************************************************************)
(* url_read behind the cache decorator, and get_broadcast_info_extended.   *)
(***************************************************************************)
max_age == 1

\* what the network can answer for a detail page: a page with text blocks,
\* a page whose blocks are empty, a page without the textbox-wide block,
\* or no page at all (urlopen raises)
Pages == {"text", "blank", "nobox"}
NetResults == Pages \cup {"URLError"}

BASE_URL_DETAIL(id) == <<"programm", id>>

\* the test of line 167 without the age of the stored result
CacheHitNoExpiry(url) ==
    /\ ~ARGS.no_cache
    /\ url \in DOMAIN cache

\* line 167
CacheHit(url) ==
    /\ ~ARGS.no_cache
    /\ url \in DOMAIN cache
    /\ utcnow < cache[url].utcdatetime + max_age

CacheStore(url, result) ==
    [u \in DOMAIN cache \cup {url} |->
        IF u = url THEN [result |-> result, utcdatetime |-> utcnow] ELSE cache[u]]

\* the assignment of lines 347-348 without its "or broadcast.full_dict['info']"
ExtendedInfoWithoutFallback(page) == IF page = "text" THEN "detail" ELSE ""

\* the value assigned to full_dict['extended_info'] for a fetched page:
\* the joined text, or the raw info when the text is empty
ExtendedInfoOf(page) == IF page = "text" THEN "detail" ELSE "info"

\* get_broadcast_info_extended raises on a page without the textbox-wide block
ParseRaises(page) == page = "nobox"

(***************************************************************************)
(* find_broadcasts_of_interest                                             *)
(***************************************************************************)
Objs == 1..Len(broadcasts)

InitMatch ==
    /\ pc = "find"
    /\ ARGS \in [dry_run : {FALSE}, overwrite : {FALSE}, no_cache : BOOLEAN]
    /\ broadcasts \in Catalogs
    /\ ini_sections \in SectionOrders
    /\ broadcasts_rules \in [Range(ini_sections) -> Rules]
    /\ broadcasts_of_interest = <<>>
    /\ extended_info = [b \in 1..Len(broadcasts) |-> "unset"]
    /\ cache = <<>>
    /\ utcnow = 0
    /\ fsec = 1
    /\ fb = 0
    /\ find_calls = 1
    /\ enrich_failed = {}
    /\ enriched = [b \in 1..Len(broadcasts) |->
                      [calls |-> 0, fetches |-> 0, page |-> "none"]]
    /\ fs = <<>>
    /\ fs_start = <<>>
    /\ run = 1
    /\ prev = <<>>
    /\ pending = {}
    /\ cur = <<>>
    /\ stage = "none"
    /\ dl_local = FALSE
    /\ r = "unset"
    /\ actually_downloaded = <<>>
    /\ actually_converted = <<>>
    /\ log = <<>>
    /\ raised = FALSE
    /\ raw_name = <<>>
    /\ sanitized = <<>>
    /\ calls = <<>>
    /\ config = <<>>
    /\ csec = 0

\* lines 334-339: enter the next rule and create its result set if it has none
FindRule ==
    /\ pc = "find"
    /\ fsec <= Len(ini_sections)
    /\ fb = 0
    /\ LET section == ini_sections[fsec]
       IN  broadcasts_of_interest' =
              IF section \in DOMAIN broadcasts_of_interest
              THEN broadcasts_of_interest
              ELSE [s \in DOMAIN broadcasts_of_interest \cup {section} |->
                       IF s = section THEN {} ELSE broadcasts_of_interest[s]]
    /\ fb' = 1
    /\ UNCHANGED <<pc, ARGS, broadcasts, ini_sections, broadcasts_rules, extended_info,
                   fsec, find_calls, enrich_failed, enriched, cacheVars, pipeVars,
                   otherVars>>

\* line 349: set.add of the Broadcast object (hashed by object identity)
AddBroadcast(section, b) ==
    [broadcasts_of_interest EXCEPT ![section] = @ \cup {b}]

\* line 347: one more call of get_broadcast_info_extended for the object, whether
\* url_read went to the network for it, and the page it got ("raise": url_read raised)
Enriched(b, page, fetched) ==
    [enriched EXCEPT ![b] = [calls |-> @.calls + 1,
                             fetches |-> @.fetches + (IF fetched THEN 1 ELSE 0),
                             page |-> page]]

\* lines 341-349: one iteration of the inner loop
FindBroadcast ==
    /\ pc = "find"
    /\ fsec <= Len(ini_sections)
    /\ fb >= 1
    /\ fb <= Len(broadcasts)
    /\ LET section == ini_sections[fsec]
           rule == broadcasts_rules[section]
           url == BASE_URL_DETAIL(broadcasts[fb].id)
           Enrich(page, fetched) ==
               /\ enriched' = Enriched(fb, page, fetched)
               /\ IF ParseRaises(page)
                  THEN /\ pc' = "crashed"
                       /\ enrich_failed' = enrich_failed \cup {<<section, fb>>}
                       /\ UNCHANGED <<extended_info, broadcasts_of_interest, fb>>
                  ELSE /\ extended_info' = [extended_info EXCEPT ![fb] = ExtendedInfoOf(page)]
                       /\ broadcasts_of_interest' = AddBroadcast(section, fb)
                       /\ fb' = fb + 1
                       /\ UNCHANGED <<pc, enrich_failed>>
       IN  IF RuleMatches(rule, broadcasts[fb])
           THEN IF CacheHit(url)
                THEN /\ Enrich(cache[url].result, FALSE)
                     /\ UNCHANGED cache
                ELSE \E net \in NetResults :
                        IF net = "URLError"
                        THEN /\ pc' = "crashed"
                             /\ enrich_failed' = enrich_failed \cup {<<section, fb>>}
                             /\ enriched' = Enriched(fb, "raise", TRUE)
                             /\ UNCHANGED <<extended_info, broadcasts_of_interest, fb, cache>>
                        ELSE /\ cache' = CacheStore(url, net)
                             /\ Enrich(net, TRUE)
           ELSE /\ fb' = fb + 1
                /\ UNCHANGED <<pc, extended_info, broadcasts_of_interest, enrich_failed,
                               enriched, cache>>
    /\ UNCHANGED <<ARGS, broadcasts, ini_sections, broadcasts_rules, fsec, find_calls, utcnow,
                   pipeVars, otherVars>>

\* the inner loop is exhausted: on to the next rule
FindNextRule ==
    /\ pc = "find"
    /\ fsec <= Len(ini_sections)
    /\ fb > Len(broadcasts)
    /\ fsec' = fsec + 1
    /\ fb' = 0
    /\ UNCHANGED <<pc, ARGS, broadcasts, ini_sections, broadcasts_rules,
                   broadcasts_of_interest, extended_info, find_calls, enrich_failed,
                   enriched, cacheVars, pipeVars, otherVars>>

\* the outer loop is exhausted: find_broadcasts_of_interest returns
FindReturn ==
    /\ pc = "find"
    /\ fsec > Len(ini_sections)
    /\ pc' = "found"
    /\ UNCHANGED <<ARGS, matchVars, cacheVars, otherVars, pipeVars>>

\* find_broadcasts_of_interest is invoked again on the same object
FindAgain ==
    /\ pc = "found"
    /\ find_calls < MaxFindCalls
    /\ pc' = "find"
    /\ fsec' = 1
    /\ fb' = 0
    /\ find_calls' = find_calls + 1
    /\ UNCHANGED <<ARGS, broadcasts, ini_sections, broadcasts_rules, broadcasts_of_interest,
                   extended_info, enrich_failed, enriched, cacheVars, pipeVars, otherVars>>

NextMatch == FindRule \/ FindBroadcast \/ FindNextRule \/ FindReturn \/ FindAgain

SpecMatch == InitMatch /\ [][NextMatch]_vars

(***************************************************************************)
(* repl_unsave: file names safe for a windows file system.                 *)
(***************************************************************************)
RemovedChars == {":", "?"}
UnsafeChars == {"\\", "/", ":", "\"", "*", "?", "<", ">", "|"}

\* re.sub(r'[:?]+', '', s)
RECURSIVE RemoveChars(_)
RemoveChars(s) ==
    IF s = <<>> THEN <<>>
    ELSE IF Head(s) \in RemovedChars THEN RemoveChars(Tail(s))
         ELSE <<Head(s)>> \o RemoveChars(Tail(s))

\* re.sub(r'[\\/:"*?<>|]+', '_', s): every maximal run becomes one underscore
RECURSIVE CollapseUnsafe(_, _)
CollapseUnsafe(s, inRun) ==
    IF s = <<>> THEN <<>>
    ELSE IF Head(s) \in UnsafeChars
         THEN (IF inRun THEN <<>> ELSE <<"_">>) \o CollapseUnsafe(Tail(s), TRUE)
         ELSE <<Head(s)>> \o CollapseUnsafe(Tail(s), FALSE)

\* the first substitution alone, its result returned as it is
repl_unsave_FirstSubOnly(file_name) == RemoveChars(file_name)

repl_unsave(file_name) == CollapseUnsafe(RemoveChars(file_name), FALSE)

(***************************************************************************)
(* The file system and the names download_all_interesting computes.        *)
(***************************************************************************)
IsFile(f, p) == p \in DOMAIN f /\ f[p] # "dir"
IsDir(f, p) == p \in DOMAIN f /\ f[p] = "dir"
Put(f, p, c) == [x \in DOMAIN f \cup {p} |-> IF x = p THEN c ELSE f[x]]
Remove(f, p) == [x \in DOMAIN f \ {p} |-> f[x]]

HTML_CACHE_FN == [dir |-> "DOWNLOAD_BASEDIR", name |-> <<>>, ext |-> "cache.pickle"]

\* TargetDir '{DOWNLOAD_BASEDIR}/{SECTION}'
download_folder(section) == [dir |-> section, name |-> <<>>, ext |-> ""]

\* TargetName '{Y}-{m}-{d} {H}h{M} ... {title} {info_1line_limited}', sanitized; only
\* the title can hold characters repl_unsave changes
download_fn_noext(b) ==
    <<broadcasts[b].day_label, broadcasts[b].time, repl_unsave(broadcasts[b].title),
      broadcasts[b].info>>

full_download_fn(item) ==
    [dir |-> item[1], name |-> download_fn_noext(item[2]), ext |-> ".mp3"]
full_conv_fn(item) ==
    [dir |-> item[1], name |-> download_fn_noext(item[2]), ext |-> ".m4a"]

\* the keyword arguments of download_all_interesting, as __main__ calls it
convert == TRUE
tag == TRUE

(***************************************************************************)
(* What the collaborators can answer.                                      *)
(***************************************************************************)
\* urlretrieve: the stream arrives, or the server answers with an HTTP error, or the
\* stream ends short, or the connection cannot be made
DownloadOutcomes == {"ok", "HTTPError", "ContentTooShortError", "URLError"}
\* ffmpeg: exit status 0, a nonzero exit status that leaves no output or a broken
\* one, or the executable cannot be started
FfmpegOutcomes == {"0", "1", "1_partial_output", "OSError"}
\* mutagen: the tags are saved, one field is refused, or the file cannot be saved
TagOutcomes == {"ok", "field_error", "save_error"}
\* os.remove
RemoveOutcomes == {"ok", "OSError"}
\* open(HTML_CACHE_FN, 'wb')
CacheWriteOutcomes == {"ok", "IOError"}

(***************************************************************************)
(* Broadcast.download(name), lines 250-271.                                *)
(***************************************************************************)
Broadcast_download(f, name, outcome) ==
    IF ~ARGS.dry_run
    THEN IF ~IsFile(f, name) \/ ARGS.overwrite
         THEN CASE outcome = "ok" ->
                     [fs |-> Put(f, name, "complete"), raised |-> FALSE,
                      ev |-> {"urlretrieve", "download_ok"}]
                [] outcome = "HTTPError" ->
                     [fs |-> IF IsFile(f, name) THEN Remove(f, name) ELSE f,
                      raised |-> FALSE, ev |-> {"urlretrieve", "download_error"}]
                [] outcome = "ContentTooShortError" ->
                     LET partial == Put(f, name, "partial")
                     IN  [fs |-> IF IsFile(partial, name) THEN Remove(partial, name)
                                 ELSE partial,
                          raised |-> FALSE, ev |-> {"urlretrieve", "download_error"}]
                [] OTHER ->
                     [fs |-> f, raised |-> TRUE, ev |-> {"urlretrieve", "download_error"}]
         ELSE [fs |-> f, raised |-> FALSE, ev |-> {"skip_existing_file"}]
    ELSE [fs |-> f, raised |-> FALSE, ev |-> {"would_download"}]

(***************************************************************************)
(* convert_to_m4a(media_fn, conv_fn=...), lines 99-138.                    *)
(* The result is the returned value: "-1", "None", "0", "1", or "raise".   *)
(***************************************************************************)
convert_to_m4a(f, media_fn, conv_fn, outcome) ==
    IF ~IsFile(f, media_fn)
    THEN [fs |-> f, r |-> "-1", ev |-> {"no_such_file_to_convert"}]
    ELSE IF IsFile(f, conv_fn)
    THEN \* line 107 reads the name overwrite_existing, which nothing defines
         [fs |-> f, r |-> "raise", ev |-> {"NameError"}]
    ELSE IF ARGS.dry_run
    THEN [fs |-> f, r |-> "0", ev |-> {"would_convert"}]
    ELSE CASE outcome = "OSError" ->
                [fs |-> IF IsFile(f, conv_fn) THEN Remove(f, conv_fn) ELSE f,
                 r |-> "raise", ev |-> {"ffmpeg"}]
           [] outcome = "0" ->
                [fs |-> Put(f, conv_fn, "complete"), r |-> "0", ev |-> {"ffmpeg", "ffmpeg_ok"}]
           [] outcome = "1_partial_output" ->
                [fs |-> Put(f, conv_fn, "partial"), r |-> "1", ev |-> {"ffmpeg", "ffmpeg_error"}]
           [] OTHER ->
                [fs |-> f, r |-> "1", ev |-> {"ffmpeg", "ffmpeg_error"}]

(***************************************************************************)
(* tag_media_file(media_fn, tag_dict), lines 83-96.                        *)
(***************************************************************************)
Tagged(content) == IF content \in {"partial", "partial_tagged"} THEN "partial_tagged"
                   ELSE "tagged"

tag_media_file(f, media_fn, outcome) ==
    IF ~IsFile(f, media_fn)
    THEN [fs |-> f, raised |-> FALSE, ev |-> {"no_such_file_to_tag"}]
    ELSE CASE outcome = "save_error" ->
                [fs |-> f, raised |-> TRUE, ev |-> {"tag_error"}]
           [] outcome = "field_error" ->
                [fs |-> Put(f, media_fn, Tagged(f[media_fn])), raised |-> FALSE,
                 ev |-> {"tag_write"}]
           [] OTHER ->
                [fs |-> Put(f, media_fn, Tagged(f[media_fn])), raised |-> FALSE,
                 ev |-> {"tag_write"}]

(***************************************************************************)
(* download_all_interesting, lines 351-407: one action per stage of the    *)
(* loop body.                                                              *)
(***************************************************************************)
\* most (rule, record) pairs of a match set handed to the pipeline
MaxItems == 2
\* program runs in a row
MaxRuns == 2

\* the (section, broadcast) pairs the two loops visit
AllPairs ==
    { i \in (DOMAIN broadcasts_of_interest) \X Objs : i[2] \in broadcasts_of_interest[i[1]] }

\* sorted(self.broadcasts_of_interest.items()) orders the sections by name
SectionRank(s) == IF s = "A" THEN 1 ELSE 2

Logged(item, events) ==
    [i \in DOMAIN log \cup {item} |->
        IF i = item THEN (IF i \in DOMAIN log THEN log[i] ELSE {}) \cup events ELSE log[i]]

\* an exception nobody catches leaves the loop and the program
Crash == /\ pc' = "crashed"
         /\ raised' = TRUE

\* which of the pair's two files are on disk when its processing starts
FoundAtStart(item) ==
    (IF IsFile(fs, full_download_fn(item)) THEN {"original_exists_at_start"} ELSE {}) \cup
    (IF IsFile(fs, full_conv_fn(item)) THEN {"converted_exists_at_start"} ELSE {})

\* lines 355-374: the next pair, its names, and its folder
PipeItem ==
    /\ pc = "pipeline"
    /\ stage \in {"none", "finished"}
    /\ \E item \in pending :
          /\ \A o \in pending : SectionRank(item[1]) <= SectionRank(o[1])
          /\ cur' = item
          /\ log' = Logged(item, FoundAtStart(item))
          /\ fs' = IF /\ ~ARGS.dry_run
                      /\ ~IsDir(fs, download_folder(item[1]))
                      /\ ~IsFile(fs, download_folder(item[1]))
                   THEN Put(fs, download_folder(item[1]), "dir")
                   ELSE fs
    /\ stage' = "download"
    /\ dl_local' = FALSE
    /\ UNCHANGED <<pc, ARGS, matchVars, cacheVars, otherVars, fs_start, run, prev, pending, r,
                   actually_downloaded, actually_converted, raised>>

\* the download test without its look at the converted file
DownloadWantedIgnoringConverted(item) ==
    /\ ~IsFile(fs, full_download_fn(item))
    /\ ~ARGS.dry_run

\* lines 376-378
DownloadWanted(item) ==
    /\ ~IsFile(fs, full_download_fn(item))
    /\ ~ARGS.dry_run
    /\ ~IsFile(fs, full_conv_fn(item))

\* lines 376-383
PipeDownload ==
    /\ pc = "pipeline"
    /\ stage = "download"
    /\ IF DownloadWanted(cur)
       THEN \E outcome \in DownloadOutcomes :
               LET d == Broadcast_download(fs, full_download_fn(cur), outcome)
               IN  /\ fs' = d.fs
                   /\ log' = Logged(cur, d.ev)
                   /\ IF d.raised
                      THEN /\ Crash
                           /\ UNCHANGED <<actually_downloaded, dl_local, stage>>
                      ELSE /\ actually_downloaded' =
                                 Append(actually_downloaded, full_download_fn(cur))
                           /\ dl_local' = TRUE
                           /\ stage' = "convert"
                           /\ UNCHANGED <<pc, raised>>
       ELSE /\ log' = Logged(cur, {"skipping_already_existing_file"})
            /\ stage' = "convert"
            /\ UNCHANGED <<pc, raised, fs, actually_downloaded, dl_local>>
    /\ UNCHANGED <<ARGS, matchVars, cacheVars, otherVars, fs_start, run, prev, pending, cur, r,
                   actually_converted>>

\* line 385
ConvertWanted(item) == convert /\ ~IsFile(fs, full_conv_fn(item))

\* lines 385-390
PipeConvert ==
    /\ pc = "pipeline"
    /\ stage = "convert"
    /\ IF ConvertWanted(cur)
       THEN \E outcome \in FfmpegOutcomes :
               LET c == convert_to_m4a(fs, full_download_fn(cur), full_conv_fn(cur), outcome)
               IN  /\ fs' = c.fs
                   /\ log' = Logged(cur, c.ev \cup {"convert_to_m4a"})
                   /\ IF c.r = "raise"
                      THEN /\ Crash
                           /\ UNCHANGED <<r, actually_converted, stage>>
                      ELSE /\ r' = c.r
                           /\ actually_converted' =
                                 IF c.r = "0"
                                 THEN Append(actually_converted, full_conv_fn(cur))
                                 ELSE actually_converted
                           /\ stage' = "tag"
                           /\ UNCHANGED <<pc, raised>>
       ELSE /\ stage' = "tag"
            /\ UNCHANGED <<pc, raised, fs, log, r, actually_converted>>
    /\ UNCHANGED <<ARGS, matchVars, cacheVars, otherVars, fs_start, run, prev, pending, cur, dl_local,
                   actually_downloaded>>

\* the test of line 391 without the local actually_downloaded
TagWantedWithoutDownload == tag /\ convert

\* line 391
TagWanted == tag /\ convert /\ dl_local

\* lines 391-398; TagComment '{extended_info}' needs the key in the record's dict
PipeTag ==
    /\ pc = "pipeline"
    /\ stage = "tag"
    /\ IF TagWanted
       THEN IF extended_info[cur[2]] = "unset"
            THEN /\ Crash
                 /\ log' = Logged(cur, {"KeyError"})
                 /\ UNCHANGED <<fs, stage>>
            ELSE \E outcome \in TagOutcomes :
                    LET t == tag_media_file(fs, full_conv_fn(cur), outcome)
                    IN  /\ fs' = t.fs
                        /\ log' = Logged(cur, t.ev \cup {"tag_media_file"})
                        /\ IF t.raised
                           THEN /\ Crash
                                /\ UNCHANGED stage
                           ELSE /\ stage' = "retention"
                                /\ UNCHANGED <<pc, raised>>
       ELSE /\ stage' = "retention"
            /\ UNCHANGED <<pc, raised, fs, log>>
    /\ UNCHANGED <<ARGS, matchVars, cacheVars, otherVars, fs_start, run, prev, pending, cur, dl_local, r,
                   actually_downloaded, actually_converted>>

\* line 399
RetentionWanted(item) ==
    /\ broadcasts_rules[item[1]].KeepOriginal # "True"
    /\ ~ARGS.dry_run

\* lines 399-407, and the end of the loop body
PipeRetention ==
    /\ pc = "pipeline"
    /\ stage = "retention"
    /\ IF RetentionWanted(cur)
       THEN IF ~ARGS.dry_run /\ IsFile(fs, full_download_fn(cur))
            THEN \E outcome \in RemoveOutcomes :
                    IF outcome = "ok"
                    THEN /\ fs' = Remove(fs, full_download_fn(cur))
                         /\ log' = Logged(cur, {"os_remove", "finished"})
                    ELSE /\ fs' = fs
                         /\ log' = Logged(cur, {"could_not_delete", "finished"})
            ELSE /\ fs' = fs
                 /\ log' = Logged(cur, {"finished"})
       ELSE /\ fs' = fs
            /\ log' = Logged(cur, {"finished"})
    /\ pending' = pending \ {cur}
    /\ stage' = "finished"
    /\ UNCHANGED <<pc, ARGS, matchVars, cacheVars, otherVars, fs_start, run, prev, cur, dl_local, r,
                   actually_downloaded, actually_converted, raised>>

\* the loops are exhausted: download_all_interesting returns, __main__ prints the lists
PipeReturn ==
    /\ pc = "pipeline"
    /\ stage \in {"none", "finished"}
    /\ pending = {}
    /\ pc' = "returned"
    /\ UNCHANGED <<ARGS, matchVars, cacheVars, otherVars, pipeVars>>

\* lines 145-154: the exit hook of the cache, run when the interpreter ends
write_cache_atexit ==
    /\ pc \in {"returned", "crashed"}
    /\ \E outcome \in CacheWriteOutcomes :
          fs' = IF outcome = "ok" THEN Put(fs, HTML_CACHE_FN, "pickle") ELSE fs
    /\ pc' = "exited"
    /\ UNCHANGED <<ARGS, matchVars, cacheVars, otherVars, fs_start, run, prev, pending, cur, stage,
                   dl_local, r, actually_downloaded, actually_converted, log, raised>>

\* after a dry run the program is started again without --dry-run, over the same
\* catalog and rules
RunAfterDryRun ==
    /\ pc = "exited"
    /\ run < MaxRuns
    /\ ARGS.dry_run
    /\ run' = run + 1
    /\ pc' = "pipeline"
    /\ ARGS' = [ARGS EXCEPT !.dry_run = FALSE]
    /\ prev' = [ARGS |-> ARGS, fs_start |-> fs_start, log |-> log, raised |-> raised]
    /\ fs_start' = fs
    /\ pending' = AllPairs
    /\ cur' = <<>>
    /\ stage' = "none"
    /\ dl_local' = FALSE
    /\ r' = "unset"
    /\ actually_downloaded' = <<>>
    /\ actually_converted' = <<>>
    /\ log' = <<>>
    /\ raised' = FALSE
    /\ UNCHANGED <<matchVars, cacheVars, otherVars, fs>>

(***************************************************************************)
(* The pipeline's inputs: a small catalog, rules whose title patterns      *)
(* select any part of it, the match set the matcher returns for them, the  *)
(* command line and the files found on disk.                               *)
(***************************************************************************)
PipeEntry(id, title) ==
    [id |-> id, day_label |-> Sat20141101, time |-> <<9, 5>>, title |-> title, info |-> "info"]

\* two records whose names differ only in characters repl_unsave drops: under one
\* rule they share their file names, under two rules they do not
PipeCatalog == << PipeEntry("id1", <<"a", "?", "/", "/", "b">>),
                  PipeEntry("id2", <<"a", "/", ":", "b">>) >>

KeepValues == {"True", "False"}

\* title patterns that select both records, the first, the second, or none
PipePatterns == {DotStar, <<"/", "/">>, <<"/", ":">>, <<"x">>}

PipeRules ==
    { [start_time |-> <<8, 0>>, end_time |-> <<10, 0>>, days |-> {5, 6}, title |-> p,
       KeepOriginal |-> k] : p \in PipePatterns, k \in KeepValues }

\* what find_broadcasts_of_interest returns for the catalog under the rules
MatchSetOf(rules) ==
    [s \in DOMAIN rules |->
        { b \in 1..Len(PipeCatalog) : RuleMatches(rules[s], PipeCatalog[b]) }]

PairCount(m) ==
    Cardinality({ i \in (DOMAIN m) \X (1..Len(PipeCatalog)) : i[2] \in m[i[1]] })

\* the detail pages the matcher has fetched for the matched records
CacheAfterFind(m) ==
    [u \in { BASE_URL_DETAIL(PipeCatalog[b].id) : b \in UNION { m[s] : s \in DOMAIN m } } |->
        [result |-> "text", utcdatetime |-> 0]]

Folders(files) == { [dir |-> p.dir, name |-> <<>>, ext |-> ""] : p \in files }

InitialFs(files, withCache) ==
    [p \in files \cup Folders(files) \cup (IF withCache THEN {HTML_CACHE_FN} ELSE {}) |->
        IF p \in files THEN "complete" ELSE IF p = HTML_CACHE_FN THEN "pickle" ELSE "dir"]

\* the original and the converted file of every pair
MediaFiles == UNION { {full_download_fn(i), full_conv_fn(i)} : i \in AllPairs }

InitPipe ==
    /\ pc = "pipeline"
    /\ ARGS \in [dry_run : BOOLEAN, overwrite : BOOLEAN, no_cache : {FALSE}]
    /\ broadcasts = PipeCatalog
    /\ ini_sections = <<"A", "B">>
    /\ broadcasts_rules \in
          { f \in [{"A", "B"} -> PipeRules] :
              /\ PairCount(MatchSetOf(f)) <= MaxItems
              /\ \A s \in {"A", "B"} :
                    MatchSetOf(f)[s] = {} =>
                       f[s].KeepOriginal = "False" /\ f[s].title = <<"x">> }
    /\ broadcasts_of_interest = MatchSetOf(broadcasts_rules)
    /\ extended_info =
          [b \in 1..Len(PipeCatalog) |->
              IF \E s \in {"A", "B"} : b \in broadcasts_of_interest[s] THEN "detail"
              ELSE "unset"]
    /\ cache = CacheAfterFind(broadcasts_of_interest)
    /\ utcnow = 0
    /\ fsec = 3
    /\ fb = 0
    /\ find_calls = 1
    /\ enrich_failed = {}
    /\ enriched =
          [b \in 1..Len(PipeCatalog) |->
              LET n == Cardinality({ s \in {"A", "B"} : b \in broadcasts_of_interest[s] })
              IN  [calls |-> n, fetches |-> IF n = 0 THEN 0 ELSE 1,
                   page |-> IF n = 0 THEN "none" ELSE "text"]]
    /\ \E files \in SUBSET MediaFiles,
          withCache \in BOOLEAN :
          fs = InitialFs(files, withCache)
    /\ fs_start = fs
    /\ run = 1
    /\ prev = <<>>
    /\ pending = AllPairs
    /\ cur = <<>>
    /\ stage = "none"
    /\ dl_local = FALSE
    /\ r = "unset"
    /\ actually_downloaded = <<>>
    /\ actually_converted = <<>>
    /\ log = <<>>
    /\ raised = FALSE
    /\ raw_name = <<>>
    /\ sanitized = <<>>
    /\ calls = <<>>
    /\ config = <<>>
    /\ csec = 0

NextPipe ==
    \/ PipeItem \/ PipeDownload \/ PipeConvert \/ PipeTag \/ PipeRetention
    \/ PipeReturn \/ write_cache_atexit \/ RunAfterDryRun

SpecPipe == InitPipe /\ [][NextPipe]_vars

(***************************************************************************)
(* The parts of the state a specification leaves alone.                    *)
(***************************************************************************)
MatcherUnused ==
    /\ broadcasts = <<>>
    /\ broadcasts_of_interest = <<>>
    /\ extended_info = <<>>
    /\ fsec = 1
    /\ fb = 0
    /\ find_calls = 0
    /\ enrich_failed = {}
    /\ enriched = <<>>

PipelineUnused ==
    /\ fs = <<>>
    /\ fs_start = <<>>
    /\ run = 1
    /\ prev = <<>>
    /\ pending = {}
    /\ cur = <<>>
    /\ stage = "none"
    /\ dl_local = FALSE
    /\ r = "unset"
    /\ actually_downloaded = <<>>
    /\ actually_converted = <<>>
    /\ log = <<>>
    /\ raised = FALSE

SanitizerUnused == raw_name = <<>> /\ sanitized = <<>>

ConfigUnused == config = <<>> /\ csec = 0

\* the command line without any flag
NoFlags == [dry_run |-> FALSE, overwrite |-> FALSE, no_cache |-> FALSE]

(***************************************************************************)
(* repl_unsave on its own: applied to a name, and again to what it         *)
(* returned.                                                               *)
(***************************************************************************)
\* longest name handed to repl_unsave
MaxLen == 3
\* calls of repl_unsave in a row, each on the result of the one before
MaxSanitizeCalls == 2

\* the characters of a rendered name: the ones repl_unsave looks for, a letter,
\* a blank and the underscore it writes
NameChars == UnsafeChars \cup {"a", " ", "_"}

InitSanitize ==
    /\ pc = "sanitize"
    /\ ARGS = NoFlags
    /\ raw_name \in SeqsUpTo(NameChars, MaxLen)
    /\ sanitized = <<>>
    /\ ini_sections = <<>>
    /\ broadcasts_rules = <<>>
    /\ cache = <<>>
    /\ utcnow = 0
    /\ calls = <<>>
    /\ MatcherUnused
    /\ PipelineUnused
    /\ ConfigUnused

\* lines 77-80, called as in line 365
CallReplUnsave ==
    /\ pc = "sanitize"
    /\ Len(sanitized) < MaxSanitizeCalls
    /\ sanitized' = Append(sanitized,
                           repl_unsave(IF sanitized = <<>> THEN raw_name
                                       ELSE sanitized[Len(sanitized)]))
    /\ UNCHANGED <<pc, ARGS, matchVars, cacheVars, pipeVars, raw_name, calls, confVars>>

NextSanitize == CallReplUnsave

SpecSanitize == InitSanitize /\ [][NextSanitize]_vars

(***************************************************************************)
(* url_read behind the cache decorator on its own: a sequence of calls     *)
(* while the clock advances.                                               *)
(***************************************************************************)
\* calls of url_read in one run
MaxCalls == 3
\* the clock, in days since the program started
MaxClock == 2

Urls == { BASE_URL_DETAIL(id) : id \in Ids }

InitCache ==
    /\ pc = "serving"
    /\ ARGS \in [dry_run : {FALSE}, overwrite : {FALSE}, no_cache : BOOLEAN]
    /\ cache = <<>>
    /\ utcnow = 0
    /\ calls = <<>>
    /\ ini_sections = <<>>
    /\ broadcasts_rules = <<>>
    /\ MatcherUnused
    /\ PipelineUnused
    /\ SanitizerUnused
    /\ ConfigUnused

\* lines 165-178 around lines 182-184: cached(url)
url_read(url) ==
    /\ pc = "serving"
    /\ Len(calls) < MaxCalls
    /\ IF CacheHit(url)
       THEN /\ calls' = Append(calls, [url |-> url, utcnow |-> utcnow, fetched |-> FALSE,
                                       result |-> cache[url].result])
            /\ UNCHANGED cache
       ELSE \E net \in NetResults :
               IF net = "URLError"
               THEN /\ calls' = Append(calls, [url |-> url, utcnow |-> utcnow,
                                               fetched |-> TRUE, result |-> "raise"])
                    /\ UNCHANGED cache
               ELSE /\ calls' = Append(calls, [url |-> url, utcnow |-> utcnow,
                                               fetched |-> TRUE, result |-> net])
                    /\ cache' = CacheStore(url, net)
    /\ UNCHANGED <<pc, ARGS, matchVars, utcnow, pipeVars, sanVars, confVars>>

\* time passes between two calls
ClockTick ==
    /\ pc = "serving"
    /\ utcnow < MaxClock
    /\ utcnow' = utcnow + 1
    /\ UNCHANGED <<pc, ARGS, matchVars, cache, pipeVars, otherVars>>

NextCache == (\E url \in Urls : url_read(url)) \/ ClockTick

SpecCache == InitCache /\ [][NextCache]_vars

(***************************************************************************)
(* Config.__init__, lines 286-302: the sections of the ini file compiled   *)
(* into rules.  A section is the set of (key, value) pairs it sets; a      *)
(* TimeWindow value is the four two-digit fields the pattern of line 294   *)
(* finds in it, or the empty tuple when the pattern does not match.        *)
(***************************************************************************)
\* lines 57-74
INI_DEFAULTS ==
    [TimeWindow |-> <<0, 0, 24, 0>>,
     Days |-> <<0, 1, 2, 3, 4, 5, 6>>,
     KeepOriginal |-> "False",
     title |-> DotStar]

\* what a section can set for each key
TimeWindowValues == {<<8, 0, 10, 0>>, <<0, 0, 23, 59>>, <<0, 0, 24, 0>>, <<>>}
DaysValues == {<<0, 1, 2, 3, 4>>, <<5, 6>>}
TitleValues == {<<"j", "o", "u", "r", "n", "a", "l">>}
KeepOriginalValues == {"True", "true"}

\* a key left out, or set to one of its values
Setting(key, values) == {{}} \cup { {<<key, v>>} : v \in values }

IniSections ==
    { tw \cup d \cup t \cup k :
        tw \in Setting("TimeWindow", TimeWindowValues),
        d \in Setting("Days", DaysValues),
        t \in Setting("title", TitleValues),
        k \in Setting("KeepOriginal", KeepOriginalValues) }

Sets(items, key) == \E p \in items : p[1] = key

\* lines 290-293: INI_DEFAULTS.copy() updated with the section's items
IniOf(items, key) ==
    IF Sets(items, key) THEN (CHOOSE p \in items : p[1] = key)[2] ELSE INI_DEFAULTS[key]

\* datetime.time(hour, minute) raises ValueError outside 0..23 and 0..59
TimeRaises(hour, minute) == hour \notin 0..23 \/ minute \notin 0..59

\* lines 294-298: no match of the pattern (m is None), or a field out of range
CompileRaises(items) ==
    LET tw == IniOf(items, "TimeWindow")
    IN  \/ Len(tw) # 4
        \/ TimeRaises(tw[1], tw[2])
        \/ TimeRaises(tw[3], tw[4])

\* lines 297-302
CompiledRule(items) ==
    LET tw == IniOf(items, "TimeWindow")
    IN  [start_time |-> <<tw[1], tw[2]>>,
         end_time |-> <<tw[3], tw[4]>>,
         days |-> Range(IniOf(items, "Days")),
         title |-> IniOf(items, "title"),
         KeepOriginal |-> IniOf(items, "KeepOriginal")]

InitConfig ==
    /\ pc = "config"
    /\ ARGS = NoFlags
    /\ ini_sections \in SectionOrders
    /\ config \in [Range(ini_sections) -> IniSections]
    /\ csec = 1
    /\ broadcasts_rules = <<>>
    /\ cache = <<>>
    /\ utcnow = 0
    /\ calls = <<>>
    /\ MatcherUnused
    /\ PipelineUnused
    /\ SanitizerUnused

\* lines 287-302: one iteration of the loop over the sections
CompileSection ==
    /\ pc = "config"
    /\ csec <= Len(ini_sections)
    /\ LET section == ini_sections[csec]
       IN  IF CompileRaises(config[section])
           THEN /\ pc' = "config_crashed"
                /\ UNCHANGED <<broadcasts_rules, csec>>
           ELSE /\ broadcasts_rules' =
                      [x \in DOMAIN broadcasts_rules \cup {section} |->
                          IF x = section THEN CompiledRule(config[section])
                          ELSE broadcasts_rules[x]]
                /\ csec' = csec + 1
                /\ UNCHANGED pc
    /\ UNCHANGED <<ARGS, broadcasts, ini_sections, broadcasts_of_interest, extended_info,
                   fsec, fb, find_calls, enrich_failed, enriched, cacheVars, pipeVars,
                   sanVars, calls, config>>

\* the loop is exhausted: Config(ARGS.ini_file) returns
ConfigReturn ==
    /\ pc = "config"
    /\ csec > Len(ini_sections)
    /\ pc' = "configured"
    /\ UNCHANGED <<ARGS, matchVars, cacheVars, pipeVars, otherVars>>

NextConfig == CompileSection \/ ConfigReturn

SpecConfig == InitConfig /\ [][NextConfig]_vars

(***************************************************************************)
(* Runs in a row over one match set: a run can be interrupted while a      *)
(* stream is being fetched, and the program is started again with any      *)
(* command line.                                                           *)
(***************************************************************************)
\* what a rule can say for KeepOriginal
ResumeKeepValues == {"True", "true", "False"}

\* one rule that selects both records of the catalog, or the first
ResumeRules ==
    { [start_time |-> <<8, 0>>, end_time |-> <<10, 0>>, days |-> {5, 6}, title |-> p,
       KeepOriginal |-> k] : p \in {DotStar, <<"/", "/">>}, k \in ResumeKeepValues }

InitResume ==
    /\ pc = "pipeline"
    /\ ARGS \in [dry_run : BOOLEAN, overwrite : BOOLEAN, no_cache : {FALSE}]
    /\ broadcasts = PipeCatalog
    /\ ini_sections = <<"A">>
    /\ broadcasts_rules \in [{"A"} -> ResumeRules]
    /\ broadcasts_of_interest = MatchSetOf(broadcasts_rules)
    /\ extended_info =
          [b \in 1..Len(PipeCatalog) |->
              IF b \in broadcasts_of_interest["A"] THEN "detail" ELSE "unset"]
    /\ cache = CacheAfterFind(broadcasts_of_interest)
    /\ utcnow = 0
    /\ fsec = 2
    /\ fb = 0
    /\ find_calls = 1
    /\ enrich_failed = {}
    /\ enriched =
          [b \in 1..Len(PipeCatalog) |->
              IF b \in broadcasts_of_interest["A"]
              THEN [calls |-> 1, fetches |-> 1, page |-> "text"]
              ELSE [calls |-> 0, fetches |-> 0, page |-> "none"]]
    /\ \E files \in SUBSET MediaFiles : fs = InitialFs(files, FALSE)
    /\ fs_start = fs
    /\ run = 1
    /\ prev = <<>>
    /\ pending = AllPairs
    /\ cur = <<>>
    /\ stage = "none"
    /\ dl_local = FALSE
    /\ r = "unset"
    /\ actually_downloaded = <<>>
    /\ actually_converted = <<>>
    /\ log = <<>>
    /\ raised = FALSE
    /\ calls = <<>>
    /\ SanitizerUnused
    /\ ConfigUnused

\* line 263 is left by an exception that line 264 does not catch (the user's
\* interrupt): what urlretrieve has written so far stays at the download path
InterruptDownload ==
    /\ pc = "pipeline"
    /\ stage = "download"
    /\ DownloadWanted(cur)
    /\ fs' = Put(fs, full_download_fn(cur), "partial")
    /\ log' = Logged(cur, {"urlretrieve", "interrupted"})
    /\ Crash
    /\ UNCHANGED <<ARGS, matchVars, cacheVars, otherVars, fs_start, run, prev, pending, cur,
                   stage, dl_local, r, actually_downloaded, actually_converted>>

\* the program is started again over the same catalog and rules
RunAgain ==
    /\ pc = "exited"
    /\ run < MaxRuns
    /\ run' = run + 1
    /\ pc' = "pipeline"
    /\ ARGS' \in [dry_run : BOOLEAN, overwrite : BOOLEAN, no_cache : {FALSE}]
    /\ prev' = [ARGS |-> ARGS, fs_start |-> fs_start, log |-> log, raised |-> raised]
    /\ fs_start' = fs
    /\ pending' = AllPairs
    /\ cur' = <<>>
    /\ stage' = "none"
    /\ dl_local' = FALSE
    /\ r' = "unset"
    /\ actually_downloaded' = <<>>
    /\ actually_converted' = <<>>
    /\ log' = <<>>
    /\ raised' = FALSE
    /\ UNCHANGED <<matchVars, cacheVars, otherVars, fs>>

NextResume ==
    \/ PipeItem \/ PipeDownload \/ InterruptDownload \/ PipeConvert \/ PipeTag
    \/ PipeRetention \/ PipeReturn \/ write_cache_atexit \/ RunAgain

SpecResume == InitResume /\ [][NextResume]_vars

(***************************************************************************)
(* The claims.                                                             *)
(***************************************************************************)
RangeOf(q) == { q[i] : i \in 1..Len(q) }

\* C1: no rule's result set ever holds two entries with the same record id,
\* whatever the catalog delivers and however often the matcher has run.
C1_NoDuplicateIds ==
    \A s \in DOMAIN broadcasts_of_interest :
        \A x \in broadcasts_of_interest[s], y \in broadcasts_of_interest[s] :
            broadcasts[x].id = broadcasts[y].id => x = y

MinuteOfDay(t) == t[1] * 60 + t[2]

LowerSeq(t) == [i \in 1..Len(t) |-> Lower(t[i])]

\* the pattern occurs somewhere in the title, ignoring case
FoundAnywhere(p, t) ==
    \/ p = DotStar
    \/ \E i \in 1..(Len(t) - Len(p) + 1) :
          LowerSeq(SubSeq(t, i, i + Len(p) - 1)) = LowerSeq(p)

\* the weekdays of the catalog's dates, from the calendar
CalendarWeekday(date) ==
    CASE date = Sat20141101 -> 5
      [] date = Mon20141103 -> 0

\* C2: when find_broadcasts_of_interest has returned, a record is in a rule's match
\* set if and only if its time of day lies in the rule's window (bounds included),
\* its weekday is one of the rule's days and the rule's pattern is found anywhere in
\* its title, ignoring case; a Saturday record is never matched by days {0,1,2,3,4}.
C2_MatchIff ==
    /\ pc = "found" =>
          \A s \in DOMAIN broadcasts_rules : \A b \in Objs :
              b \in broadcasts_of_interest[s] <=>
                 /\ MinuteOfDay(broadcasts_rules[s].start_time) <= MinuteOfDay(broadcasts[b].time)
                 /\ MinuteOfDay(broadcasts[b].time) <= MinuteOfDay(broadcasts_rules[s].end_time)
                 /\ CalendarWeekday(broadcasts[b].day_label) \in broadcasts_rules[s].days
                 /\ FoundAnywhere(broadcasts_rules[s].title, broadcasts[b].title)
    /\ \A s \in DOMAIN broadcasts_of_interest : \A b \in broadcasts_of_interest[s] :
          ~(/\ broadcasts[b].day_label = Sat20141101
            /\ broadcasts_rules[s].days = {0, 1, 2, 3, 4})

\* the matcher has returned with, under one rule for the working days and the word
\* "journal", a Monday record on a bound of the window matched and a Saturday
\* record inside the window left out
C2_Witness ==
    /\ pc = "found"
    /\ \E s \in DOMAIN broadcasts_of_interest, x \in Objs, y \in Objs :
          /\ broadcasts_rules[s].days = {0, 1, 2, 3, 4}
          /\ broadcasts_rules[s].title # DotStar
          /\ x \in broadcasts_of_interest[s]
          /\ broadcasts[x].time \in {<<8, 0>>, <<10, 0>>}
          /\ y \notin broadcasts_of_interest[s]
          /\ broadcasts[y].day_label = Sat20141101
          /\ broadcasts[y].title = Journal

\* C3: in a dry run the file system at process exit equals the file system at
\* program start.
C3_DryRunLeavesFs ==
    (ARGS.dry_run /\ pc = "exited") => fs = fs_start

MediaOnly(f) == [p \in {x \in DOMAIN f : x.ext \in {".mp3", ".m4a"}} |-> f[p]]

\* C4: a dry run and a real run started from the same files decide alike for every
\* pair: where the real run downloads or converts, the dry run reports that it would,
\* and where the real run skips the download, so does the dry run.
C4_DryRunSameDecisions ==
    (/\ run = 2
     /\ prev.ARGS.dry_run
     /\ ~ARGS.dry_run
     /\ MediaOnly(fs_start) = MediaOnly(prev.fs_start)) =>
        \A item \in DOMAIN log \cap DOMAIN prev.log :
            /\ "urlretrieve" \in log[item] => "would_download" \in prev.log[item]
            /\ "ffmpeg" \in log[item] => "would_convert" \in prev.log[item]
            /\ ("skipping_already_existing_file" \in log[item]) =>
                  ("skipping_already_existing_file" \in prev.log[item])

\* C5: when the transcoder returned a nonzero exit status for a pair, then at the end
\* of that pair's processing its converted path is not in the converted list and its
\* original file still exists, whatever KeepOriginal says.
C5_FailedConversionKeepsOriginal ==
    (stage = "finished" /\ "ffmpeg_error" \in log[cur]) =>
        /\ full_conv_fn(cur) \notin RangeOf(actually_converted)
        /\ IsFile(fs, full_download_fn(cur))

C7_SkipIffExistsAndNoOverwrite ==
    ~ARGS.dry_run =>
        \A item \in DOMAIN log :
            ~(item = cur /\ stage = "download") =>
                ("skipping_already_existing_file" \in log[item] <=>
                    /\ log[item] \cap {"original_exists_at_start",
                                       "converted_exists_at_start"} # {}
                    /\ ~ARGS.overwrite)

\* C8: when download_all_interesting has returned, a pair's download path is in the
\* downloaded list if and only if a stream download to that path was made in this
\* run and ended without a transport failure.
C8_DownloadedListOnlySuccesses ==
    pc = "returned" =>
        \A item \in AllPairs :
            full_download_fn(item) \in RangeOf(actually_downloaded) <=>
                \E j \in DOMAIN log :
                    /\ full_download_fn(j) = full_download_fn(item)
                    /\ "download_ok" \in log[j]

\* C9: whatever fails for single pairs, every (rule, record) pair has been through
\* its stages when the program ends.
C9_EveryPairFinishes ==
    pc = "exited" =>
        \A item \in AllPairs : item \in DOMAIN log /\ "finished" \in log[item]

\* C10: a failed enrichment fetch does not end find_broadcasts_of_interest: the
\* record is in the rule's match set and its extended info is its raw info.
C10_EnrichFailureNotFatal ==
    \A p \in enrich_failed :
        /\ pc # "crashed"
        /\ p[1] \in DOMAIN broadcasts_of_interest
        /\ p[2] \in broadcasts_of_interest[p[1]]
        /\ extended_info[p[2]] = "info"

\* C11: whatever name repl_unsave is given, none of the characters \ / : " * ? < > |
\* is in what it returns, and applying it to its own result returns that result.
C11_SanitizeSafeAndIdempotent ==
    \A i \in 1..Len(sanitized) :
        /\ \A j \in 1..Len(sanitized[i]) :
              sanitized[i][j] \notin {"\\", "/", ":", "\"", "*", "?", "<", ">", "|"}
        /\ sanitized[i] = sanitized[1]

\* repl_unsave has been applied twice to a name from which it both removes
\* characters and collapses a run of them into an underscore
C11_Witness ==
    /\ Len(sanitized) = 2
    /\ raw_name = <<"?", "/", "\\">>
    /\ sanitized[1] = <<"_">>

\* the earlier calls on the url of call k whose network fetch delivered a result
StoredBefore(k) ==
    { j \in 1..(k - 1) : /\ calls[j].url = calls[k].url
                          /\ calls[j].fetched
                          /\ calls[j].result # "raise" }

LatestOf(S) == CHOOSE j \in S : \A i \in S : i <= j

\* C12: a call of url_read goes to the network if and only if --no-cache is given, or
\* no earlier call stored a result for its url, or the stored result is at least one
\* day old; any other call returns the stored result.
C12_FetchIffNoCacheMissOrStale ==
    \A k \in 1..Len(calls) :
        LET stored == StoredBefore(k)
        IN  /\ calls[k].fetched <=>
                  \/ ARGS.no_cache
                  \/ stored = {}
                  \/ calls[k].utcnow - calls[LatestOf(stored)].utcnow >= 1
            /\ ~calls[k].fetched => calls[k].result = calls[LatestOf(stored)].result

\* the same url read three times: fetched, served from the cache the same day,
\* and fetched again a day later
C12_Witness ==
    /\ ~ARGS.no_cache
    /\ Len(calls) = 3
    /\ calls[1].url = calls[2].url
    /\ calls[2].url = calls[3].url
    /\ calls[1].fetched
    /\ calls[1].result = "blank"
    /\ ~calls[2].fetched
    /\ calls[2].result = "blank"
    /\ calls[3].fetched
    /\ calls[3].utcnow = 1

\* every key the section sets has a well-formed value
WellFormed(items) ==
    \A p \in items : p[1] = "TimeWindow" =>
        /\ Len(p[2]) = 4
        /\ p[2][1] \in 0..23 /\ p[2][2] \in 0..59
        /\ p[2][3] \in 0..23 /\ p[2][4] \in 0..59

\* C13: a section whose keys are well-formed compiles whichever keys it leaves out;
\* the rule has the default of every key left out, and with TimeWindow and Days left
\* out its window and its day set admit every weekday and every time of day.
C13_MissingKeysUseDefaults ==
    \A i \in 1..Len(ini_sections) :
        LET section == ini_sections[i]
            items == config[section]
        IN  WellFormed(items) =>
               /\ ~(pc = "config_crashed" /\ csec = i)
               /\ section \in DOMAIN broadcasts_rules =>
                     LET rule == broadcasts_rules[section]
                     IN  /\ ~Sets(items, "KeepOriginal") => rule.KeepOriginal = "False"
                         /\ ~Sets(items, "title") => rule.title = DotStar
                         /\ ~Sets(items, "Days") => rule.days = 0..6
                         /\ ~Sets(items, "TimeWindow") =>
                               \A t \in {<<0, 0>>, <<9, 5>>, <<23, 59>>} :
                                   TimeLE(rule.start_time, t) /\ TimeLE(t, rule.end_time)

\* C14: tag_media_file is called for a pair only when tagging and conversion are
\* enabled and the pair's stream was fetched in this run; a pair whose download stage
\* was skipped because one of its files existed is never tagged, converted or not.
C14_TagOnlyAfterDownload ==
    \A item \in DOMAIN log :
        /\ "tag_media_file" \in log[item] =>
              /\ tag /\ convert
              /\ "urlretrieve" \in log[item]
              /\ "skipping_already_existing_file" \notin log[item]
        /\ log[item] \cap {"original_exists_at_start", "converted_exists_at_start"} # {} =>
              log[item] \cap {"tag_media_file", "tag_write"} = {}

\* a pair found with its original on disk has been converted in this run and is
\* through its stages untagged, after another pair was downloaded and tagged
C14_Witness ==
    /\ stage = "finished"
    /\ "original_exists_at_start" \in log[cur]
    /\ "ffmpeg_ok" \in log[cur]
    /\ "tag_media_file" \notin log[cur]
    /\ \E other \in DOMAIN log :
          /\ "download_ok" \in log[other]
          /\ "tag_write" \in log[other]

\* the rule's KeepOriginal is a boolean string for true
KeepSpecified(rule) == rule.KeepOriginal \in {"True", "true"}

\* C15: under a rule that specifies keep-original no run removes a pair's original
\* file; under a rule that does not, in a real run the original of a pair whose
\* conversion succeeded is gone when the pair's processing finishes, unless the
\* delete itself failed.
C15_KeepOriginalHonoured ==
    \A item \in DOMAIN log :
        LET rule == broadcasts_rules[item[1]]
        IN  /\ KeepSpecified(rule) => "os_remove" \notin log[item]
            /\ (/\ ~KeepSpecified(rule)
                 /\ ~ARGS.dry_run
                 /\ item = cur
                 /\ stage = "finished"
                 /\ "ffmpeg_ok" \in log[item]
                 /\ "could_not_delete" \notin log[item]) =>
                    ~IsFile(fs, full_download_fn(item))

\* the pair's two files, as far as they exist
ItemFiles(f, item) ==
    [p \in {full_download_fn(item), full_conv_fn(item)} \cap DOMAIN f |-> f[p]]

\* the run before this one was a real run that fetched and converted the pair
DoneInPreviousRun(item) ==
    /\ run >= 2
    /\ ~prev.ARGS.dry_run
    /\ item \in DOMAIN prev.log
    /\ {"download_ok", "ffmpeg_ok"} \subseteq prev.log[item]

\* this run has fetched, transcoded, tagged and removed nothing for the pair, and
\* the pair's files are as they were when the run started
NothingDone(item) ==
    /\ item \in DOMAIN log =>
          log[item] \cap {"urlretrieve", "ffmpeg", "tag_write", "os_remove"} = {}
    /\ ItemFiles(fs, item) = ItemFiles(fs_start, item)

C18_IncompleteFileNotReused ==
    (run >= 2 /\ ~ARGS.dry_run) =>
        /\ \A item \in DOMAIN log \cap DOMAIN prev.log :
              (/\ "interrupted" \in prev.log[item]
               /\ ~(item = cur /\ stage = "download")) =>
                  "urlretrieve" \in log[item]
        /\ ~(/\ stage \in {"tag", "retention"}
              /\ "ffmpeg" \in log[cur]
              /\ IsFile(fs, full_download_fn(cur))
              /\ fs[full_download_fn(cur)] = "partial")

\* C16: in one invocation of find_broadcasts_of_interest the enrichment is called
\* for a record only if some rule matches it, and its fetch goes out at most once for
\* the record, however many rules match it.
C16_EnrichAtMostOnce ==
    find_calls = 1 =>
        \A b \in DOMAIN enriched :
            /\ enriched[b].fetches <= 1
            /\ enriched[b].calls >= 1 =>
                  \E s \in DOMAIN broadcasts_rules :
                      /\ MinuteOfDay(broadcasts_rules[s].start_time)
                            <= MinuteOfDay(broadcasts[b].time)
                      /\ MinuteOfDay(broadcasts[b].time)
                            <= MinuteOfDay(broadcasts_rules[s].end_time)
                      /\ CalendarWeekday(broadcasts[b].day_label) \in broadcasts_rules[s].days
                      /\ FoundAnywhere(broadcasts_rules[s].title, broadcasts[b].title)

\* C19: tag_media_file writes to a pair's converted file only if the transcoder
\* returned exit status 0 for that pair in this run, also when a failed conversion
\* left a file at the output path.
C19_TagWriteOnlyAfterZeroExit ==
    \A item \in DOMAIN log :
        "tag_write" \in log[item] => "ffmpeg_ok" \in log[item]

\* C20: when find_broadcasts_of_interest has returned, every record in a rule's match
\* set has its extended_info: the detail text of the page fetched for it, or its raw
\* info when that text is empty; a record in no match set never has the field.
C20_MatchedHaveExtendedInfo ==
    /\ pc = "found" =>
          \A s \in DOMAIN broadcasts_of_interest : \A b \in broadcasts_of_interest[s] :
              /\ extended_info[b] # "unset"
              /\ extended_info[b] =
                    IF enriched[b].page = "text" THEN "detail" ELSE broadcasts[b].info
    /\ \A b \in DOMAIN extended_info :
          (\A s \in DOMAIN broadcasts_of_interest : b \notin broadcasts_of_interest[s]) =>
              extended_info[b] = "unset"

\* the matcher has returned with a record matched whose page had no text, its
\* extended_info its raw info, and with a record no rule matches
C20_Witness ==
    /\ pc = "found"
    /\ \E s \in DOMAIN broadcasts_of_interest, x \in Objs, y \in Objs :
          /\ x \in broadcasts_of_interest[s]
          /\ enriched[x].page = "blank"
          /\ extended_info[x] = "info"
          /\ \A t \in DOMAIN broadcasts_of_interest : y \notin broadcasts_of_interest[t]
          /\ extended_info[y] = "unset"

====
